---- MODULE Spec2Model ----
(***************************************************************************)
(* The shoe style matcher (src/index.tsx): the state of the App component, *)
(* its event handlers, the asynchronous calls they leave in flight (the    *)
(* catalog list and create requests, the FileReader loads, the image       *)
(* classification request) and the colour matching rules.                  *)
(*                                                                         *)
(* JavaScript values are encoded so that TLC can compare them:             *)
(*   - a product's colorTags is [type, items]: type is the value's kind    *)
(*     ("undefined", "null", "string", "array"), items its elements when   *)
(*     it is an array;                                                     *)
(*   - an optional field of the service payload is <<>> when absent and    *)
(*     <<v>> when present;                                                 *)
(*   - isShoe is the JSON text of its value ("true", "0", ...), or         *)
(*     "undefined" when the field is absent.                               *)
(* Colour names are strings; the service returns strings (the response     *)
(* schema of the request) and a product's colorTags array holds strings.   *)
(***************************************************************************)
EXTENDS Naturals, Sequences, FiniteSets, TLC

VARIABLES
    allProducts,        \* useState([]): the in-memory catalog
    matchingProducts,   \* useState([])
    imagePreview,       \* useState(''): the data URL of the chosen image
    detectedColors,     \* useState({ mainColors: [], sideColors: [] })
    isAnalyzing,        \* useState(false)
    analysisMessage,    \* useState('')
    isFetching,         \* useState(true)
    error,              \* useState('')
    showAddProductForm, \* useState(false)
    newProduct,         \* useState({ name: '', imageSrc: '', link: '', ... })
    isSubmitting,       \* useState(false)
    fetches,            \* catalog list requests in flight (fetchAllProducts)
    posts,              \* catalog create requests in flight (handleProductSubmit)
    readers,            \* FileReader loads in flight (handleImageChange)
    calls               \* classification requests in flight (handleImageAnalysis)

vars == <<allProducts, matchingProducts, imagePreview, detectedColors, isAnalyzing,
          analysisMessage, isFetching, error, showAddProductForm, newProduct,
          isSubmitting, fetches, posts, readers, calls>>

---------------------------------------------------------------------------
(* Bounds of the model.                                                    *)

\* longest mainColors and longest sideColors list of a payload (MatchSpec)
MaxColors == 2
\* longest colorTags array of a product (MatchSpec)
MaxTags == 3
\* longest catalog built from the sample products (MatchSpec)
MaxCatalog == 2
\* FileReader loads in flight at once
MaxReaders == 1
\* classification requests in flight at once that the model can hold
MaxCalls == 2

(* Program constants.                                                      *)

\* lowerCaseDetectedColors.length >= 3
MinDetectedForRule1 == 3
\* commonColorCount >= 3
MinCommonColors == 3

---------------------------------------------------------------------------
(* The messages of setError.                                               *)

ErrCatalog == "Could not load product catalog. Please check the API endpoint."
ErrSave == "Could not save the product. Please try again."
ErrMalformed == "The AI response was not in the expected format. This can happen due to high traffic. Please try again in a moment."
ErrInconclusive == "The AI analysis was inconclusive. Please try a different image."
ErrNotAShoe == "Please upload a photo of a shoe. We couldn't detect one in this image."
ErrNoColors == "We couldn't determine the colors of the shoe. Please try a clearer image."
ErrService == "Sorry, we couldn't analyze the image or find matches. Please try another one."

AnalyzingText == "Analyzing image..."

---------------------------------------------------------------------------
(* Helpers on sequences.                                                   *)

SeqsUpTo(S, n) == UNION {[1..k -> S] : k \in 0..n}

Elements(s) == {s[i] : i \in DOMAIN s}

RemoveAt(s, i) == [j \in 1..(Len(s) - 1) |-> IF j < i THEN s[j] ELSE s[j + 1]]

---------------------------------------------------------------------------
(* JavaScript values.                                                      *)

\* mutant: the names are compared as they are
toLowerCaseIdentity(s) == s

\* String.prototype.toLowerCase on the colour names of the model
toLowerCase(s) ==
    CASE s = "Red" -> "red"
      [] s = "RED" -> "red"
      [] s = "Blue" -> "blue"
      [] s = "BLUE" -> "blue"
      [] s = "Teal" -> "teal"
      [] OTHER -> s

\* a colorTags value
Undefined == [type |-> "undefined", items |-> <<>>]
JsNull == [type |-> "null", items |-> <<>>]
JsString == [type |-> "string", items |-> <<>>]
JsArray(items) == [type |-> "array", items |-> items]

\* !v for a colorTags value (a non-empty string and an array are truthy)
Falsy(v) == v.type \in {"undefined", "null"}

\* Array.isArray(v)
IsArray(v) == v.type = "array"

\* typeof of an isShoe value
TypeOf(v) ==
    CASE v = "undefined" -> "undefined"
      [] v \in {"true", "false"} -> "boolean"
      [] v = "null" -> "object"
      [] v \in {"0", "1"} -> "number"
      [] OTHER -> "string"

\* mutant: only an absent value is falsy
TruthyWhenDefined(v) == v # "undefined"

\* !v is false for an isShoe value
Truthy(v) == v \notin {"undefined", "null", "false", "0", "\"\""}

---------------------------------------------------------------------------
(* The matching rules of handleImageAnalysis.                              *)

\* colors.map(c => c.toLowerCase()), product.colorTags.map(tag => tag.toLowerCase())
MapLower(s) == [i \in DOMAIN s |-> toLowerCase(s[i])]

\* mutant: the guard without its Array.isArray test
SkipsProductFalsyOnly(product) == Falsy(product.colorTags)

\* if (!product.colorTags || !Array.isArray(product.colorTags)) return false;
SkipsProduct(product) ==
    Falsy(product.colorTags) \/ ~IsArray(product.colorTags)

\* product.colorTags.map(...) of a value that is no array is a TypeError
MapThrows(product) ==
    ~SkipsProduct(product) /\ ~IsArray(product.colorTags)

\* mutant: the count of the distinct shared colours
CommonColorCountDistinct(lowerCaseProductTags, detectedColorsSet) ==
    Cardinality(Elements(lowerCaseProductTags) \cap detectedColorsSet)

\* for (const tag of lowerCaseProductTags) if (detectedColorsSet.has(tag)) commonColorCount++
RECURSIVE CommonColorCount(_, _)
CommonColorCount(lowerCaseProductTags, detectedColorsSet) ==
    IF lowerCaseProductTags = <<>> THEN 0
    ELSE (IF Head(lowerCaseProductTags) \in detectedColorsSet THEN 1 ELSE 0)
         + CommonColorCount(Tail(lowerCaseProductTags), detectedColorsSet)

\* Rule 1: Match if at least 3 colors are shared
Rule1(product, detectedColorsSet) ==
    IF SkipsProduct(product) THEN FALSE
    ELSE CommonColorCount(MapLower(product.colorTags.items), detectedColorsSet)
            >= MinCommonColors

\* mutant: some instead of every
Rule2Some(product, lowerCaseDetectedColors) ==
    IF SkipsProduct(product) THEN FALSE
    ELSE LET productTagsSet == Elements(MapLower(product.colorTags.items))
         IN  \E i \in DOMAIN lowerCaseDetectedColors :
                 lowerCaseDetectedColors[i] \in productTagsSet

\* Rule 2: Match if ALL detected colors are present
Rule2(product, lowerCaseDetectedColors) ==
    IF SkipsProduct(product) THEN FALSE
    ELSE LET productTagsSet == Elements(MapLower(product.colorTags.items))
         IN  \A i \in DOMAIN lowerCaseDetectedColors :
                 lowerCaseDetectedColors[i] \in productTagsSet

\* mutant: the threshold on the number of distinct colours
UsesRule1Distinct(lowerCaseDetectedColors) ==
    Cardinality(Elements(lowerCaseDetectedColors)) >= MinDetectedForRule1

\* if (lowerCaseDetectedColors.length >= 3)
UsesRule1(lowerCaseDetectedColors) ==
    Len(lowerCaseDetectedColors) >= MinDetectedForRule1

\* the callback of allProducts.filter
Keeps(product, lowerCaseDetectedColors) ==
    IF UsesRule1(lowerCaseDetectedColors)
    THEN Rule1(product, Elements(lowerCaseDetectedColors))
    ELSE Rule2(product, lowerCaseDetectedColors)

\* mutant: the kept products are collected last to first
RECURSIVE FilterReversed(_, _)
FilterReversed(catalog, lowerCaseDetectedColors) ==
    IF catalog = <<>> THEN <<>>
    ELSE FilterReversed(Tail(catalog), lowerCaseDetectedColors)
         \o (IF Keeps(Head(catalog), lowerCaseDetectedColors)
             THEN <<Head(catalog)>> ELSE <<>>)

\* allProducts.filter(...): the kept products, in the order of the catalog
RECURSIVE Filter(_, _)
Filter(catalog, lowerCaseDetectedColors) ==
    IF catalog = <<>> THEN <<>>
    ELSE (IF Keeps(Head(catalog), lowerCaseDetectedColors)
          THEN <<Head(catalog)>> ELSE <<>>)
         \o Filter(Tail(catalog), lowerCaseDetectedColors)

\* the filter throws when its callback does
FilterThrows(catalog) == \E i \in DOMAIN catalog : MapThrows(catalog[i])

\* const colors = [...mainColors, ...sideColors]; ...; matches = allProducts.filter(...)
Matches(catalog, mainColors, sideColors) ==
    Filter(catalog, MapLower(mainColors \o sideColors))

---------------------------------------------------------------------------
(* What the code after `await ai.models.generateContent` does with the     *)
(* service's reply: which of setError, setDetectedColors and               *)
(* setMatchingProducts it calls, and with what.                            *)

NoDetectedColors == [mainColors |-> <<>>, sideColors |-> <<>>]

Fails(message) ==
    [setsError |-> TRUE, error |-> message,
     setsDetected |-> FALSE, detected |-> NoDetectedColors,
     setsMatches |-> FALSE, matches |-> <<>>]

\* const { mainColors = [], sideColors = [] } = analysisResult
Default(field) == IF field = <<>> THEN <<>> ELSE field[1]

\* if (!analysisResult || typeof analysisResult.isShoe === 'undefined')
Inconclusive(reply) ==
    reply.json = "null" \/ TypeOf(reply.isShoe) = "undefined"

\* mutant: the test for no colours is left out
NeverEmpty(mainColors, sideColors) == FALSE

\* mutant: || instead of &&
EitherEmpty(mainColors, sideColors) == Len(mainColors) = 0 \/ Len(sideColors) = 0

\* if (mainColors.length === 0 && sideColors.length === 0)
BothEmpty(mainColors, sideColors) == Len(mainColors) = 0 /\ Len(sideColors) = 0

Outcome(reply, catalog) ==
    IF ~reply.ok THEN Fails(ErrService)
    ELSE IF reply.json = "invalid" THEN Fails(ErrMalformed)
    ELSE IF Inconclusive(reply) THEN Fails(ErrInconclusive)
    ELSE IF ~Truthy(reply.isShoe) THEN Fails(ErrNotAShoe)
    ELSE LET mainColors == Default(reply.mainColors)
             sideColors == Default(reply.sideColors)
             detected == [mainColors |-> mainColors, sideColors |-> sideColors]
         IN  IF BothEmpty(mainColors, sideColors) THEN Fails(ErrNoColors)
             ELSE IF FilterThrows(catalog)
             THEN [setsError |-> TRUE, error |-> ErrService,
                   setsDetected |-> TRUE, detected |-> detected,
                   setsMatches |-> FALSE, matches |-> <<>>]
             ELSE [setsError |-> FALSE, error |-> "",
                   setsDetected |-> TRUE, detected |-> detected,
                   setsMatches |-> TRUE,
                   matches |-> Matches(catalog, mainColors, sideColors)]

---------------------------------------------------------------------------
(* The inputs of the model: what the user, the catalog store, the file     *)
(* reader and the classification service can hand to the program.          *)

Product(id, colorTags) == [id |-> id, colorTags |-> colorTags]

\* what GET <endpoint> can answer
FetchResults ==
    { <<>>,
      << Product("1", JsArray(<<"Red", "blue", "RED">>)), Product("2", Undefined) >>,
      << Product("3", JsArray(<<"Blue">>)), Product("1", JsArray(<<"Red", "blue", "RED">>)) >> }

\* reader.result of the files the user can choose; the second one's MIME type
\* has a hyphen before the slash
DataUrls == {"data:image/png;base64,AAAA", "data:x-world/x-3dmf;base64,AAAA"}

\* imagePreview.match(/data:([a-zA-Z0-9]+\/[a-zA-Z0-9-.+]+).*,.*/) is not null
MimeMatches(url) == url = "data:image/png;base64,AAAA"

\* what the user can type into the add-product form: <<field, value>>
FormInputs ==
    { <<"name", "Runner">>, <<"imageSrc", "https://img">>, <<"link", "https://shop">>,
      <<"link", "">> }

EmptyProduct ==
    [name |-> "", imageSrc |-> "", link |-> "", mainColors |-> "", sideColors |-> ""]

\* a reply of the classification service: ok is FALSE when the call rejects;
\* json is "invalid" when the text does not parse, "null" when it parses to
\* null, "object" when it parses to an object with the three fields
Reply(ok, json, isShoe, mainColors, sideColors) ==
    [ok |-> ok, json |-> json, isShoe |-> isShoe,
     mainColors |-> mainColors, sideColors |-> sideColors]

Rejected == Reply(FALSE, "invalid", "undefined", <<>>, <<>>)
Unparsable == Reply(TRUE, "invalid", "undefined", <<>>, <<>>)
NullPayload == Reply(TRUE, "null", "undefined", <<>>, <<>>)

IsShoeValues == {"undefined", "null", "true", "false", "\"yes\"", "0"}

\* the colour lists of the replies of the application model
ServiceMainColors == { <<>>, << <<>> >>, << <<"Red", "blue">> >> }
ServiceSideColors == { <<>>, << <<>> >>, << <<"RED">> >>, << <<"teal">> >> }

ServiceReplies ==
    {Rejected, Unparsable, NullPayload}
    \cup {Reply(TRUE, "object", isShoe, <<>>, <<>>) : isShoe \in IsShoeValues}
    \cup {Reply(TRUE, "object", isShoe, m, s) :
            isShoe \in {"true", "false", "\"yes\""},
            m \in ServiceMainColors, s \in ServiceSideColors}

---------------------------------------------------------------------------
(* The application.                                                        *)

\* the state after the first render and its effect: fetchAllProducts() is
\* in flight
Init ==
    /\ allProducts = <<>>
    /\ matchingProducts = <<>>
    /\ imagePreview = ""
    /\ detectedColors = NoDetectedColors
    /\ isAnalyzing = FALSE
    /\ analysisMessage = ""
    /\ isFetching = TRUE
    /\ error = ""
    /\ showAddProductForm = FALSE
    /\ newProduct = EmptyProduct
    /\ isSubmitting = FALSE
    /\ fetches = << [awaitedBy |-> "mount"] >>
    /\ posts = 0
    /\ readers = <<>>
    /\ calls = <<>>

\* fetchAllProducts, from `await fetch(url)` on: the list request i ends,
\* with a catalog or with a failure; handleProductSubmit, when it awaits
\* this request, goes on to its finally block
fetchAllProducts(i, okResponse, data) ==
    /\ i \in DOMAIN fetches
    /\ IF okResponse
       THEN /\ allProducts' = data
            /\ error' = error
       ELSE /\ allProducts' = <<>>
            /\ error' = ErrCatalog
    /\ isFetching' = FALSE
    /\ isSubmitting' = IF fetches[i].awaitedBy = "submit" THEN FALSE ELSE isSubmitting
    /\ fetches' = RemoveAt(fetches, i)
    /\ UNCHANGED <<matchingProducts, imagePreview, detectedColors, isAnalyzing,
                   analysisMessage, showAddProductForm, newProduct, posts, readers,
                   calls>>

\* mutant: the reset clears the busy flag too
handleResetClearsBusy ==
    /\ imagePreview # ""
    /\ imagePreview' = ""
    /\ detectedColors' = NoDetectedColors
    /\ matchingProducts' = <<>>
    /\ error' = ""
    /\ isAnalyzing' = FALSE
    /\ UNCHANGED <<allProducts, analysisMessage, isFetching, showAddProductForm,
                   newProduct, isSubmitting, fetches, posts, readers, calls>>

\* a reset that leaves the matched products in place
handleResetKeepsMatches ==
    /\ imagePreview # ""
    /\ imagePreview' = ""
    /\ detectedColors' = NoDetectedColors
    /\ error' = ""
    /\ UNCHANGED <<allProducts, matchingProducts, isAnalyzing, analysisMessage,
                   isFetching, showAddProductForm, newProduct, isSubmitting,
                   fetches, posts, readers, calls>>

\* the Start over button is rendered when imagePreview is set
handleReset ==
    /\ imagePreview # ""
    /\ imagePreview' = ""
    /\ detectedColors' = NoDetectedColors
    /\ matchingProducts' = <<>>
    /\ error' = ""
    /\ UNCHANGED <<allProducts, isAnalyzing, analysisMessage, isFetching,
                   showAddProductForm, newProduct, isSubmitting, fetches, posts,
                   readers, calls>>

toggleAddProductForm ==
    /\ showAddProductForm' = ~showAddProductForm
    /\ error' = ""
    /\ UNCHANGED <<allProducts, matchingProducts, imagePreview, detectedColors,
                   isAnalyzing, analysisMessage, isFetching, newProduct, isSubmitting,
                   fetches, posts, readers, calls>>

handleInputChange(name, value) ==
    /\ showAddProductForm
    /\ newProduct' = [newProduct EXCEPT ![name] = value]
    /\ UNCHANGED <<allProducts, matchingProducts, imagePreview, detectedColors,
                   isAnalyzing, analysisMessage, isFetching, error, showAddProductForm,
                   isSubmitting, fetches, posts, readers, calls>>

\* handleProductSubmit up to `await fetch(API_ENDPOINT, ...)`
handleProductSubmit ==
    /\ showAddProductForm
    /\ ~isSubmitting
    /\ newProduct.name # "" /\ newProduct.imageSrc # "" /\ newProduct.link # ""
    /\ isSubmitting' = TRUE
    /\ error' = ""
    /\ posts' = posts + 1
    /\ UNCHANGED <<allProducts, matchingProducts, imagePreview, detectedColors,
                   isAnalyzing, analysisMessage, isFetching, showAddProductForm,
                   newProduct, fetches, readers, calls>>

\* mutant: the created product is appended to the catalog, with no refresh
ProductSubmitResponseAppends(okResponse) ==
    /\ posts > 0
    /\ posts' = posts - 1
    /\ IF okResponse
       THEN /\ newProduct' = EmptyProduct
            /\ showAddProductForm' = FALSE
            /\ allProducts' = Append(allProducts, Product("new", JsArray(<<>>)))
            /\ isSubmitting' = FALSE
            /\ UNCHANGED error
       ELSE /\ error' = ErrSave
            /\ isSubmitting' = FALSE
            /\ UNCHANGED <<newProduct, showAddProductForm, allProducts>>
    /\ UNCHANGED <<matchingProducts, imagePreview, detectedColors, fetches,
                   isAnalyzing, analysisMessage, isFetching, readers, calls>>

\* handleProductSubmit after the create request ends: on success the form
\* is cleared and closed and fetchAllProducts() is awaited; on failure the
\* catch and finally blocks run
ProductSubmitResponse(okResponse) ==
    /\ posts > 0
    /\ posts' = posts - 1
    /\ IF okResponse
       THEN /\ newProduct' = EmptyProduct
            /\ showAddProductForm' = FALSE
            /\ fetches' = Append(fetches, [awaitedBy |-> "submit"])
            /\ UNCHANGED <<error, isSubmitting>>
       ELSE /\ error' = ErrSave
            /\ isSubmitting' = FALSE
            /\ UNCHANGED <<newProduct, showAddProductForm, fetches>>
    /\ UNCHANGED <<allProducts, matchingProducts, imagePreview, detectedColors,
                   isAnalyzing, analysisMessage, isFetching, readers, calls>>

\* handleImageChange: hasFile is FALSE when e.target.files[0] is undefined
handleImageChange(hasFile, result) ==
    /\ hasFile => Len(readers) < MaxReaders
    /\ imagePreview' = ""
    /\ detectedColors' = NoDetectedColors
    /\ matchingProducts' = <<>>
    /\ error' = ""
    /\ readers' = IF hasFile THEN Append(readers, result) ELSE readers
    /\ UNCHANGED <<allProducts, isAnalyzing, analysisMessage, isFetching,
                   showAddProductForm, newProduct, isSubmitting, fetches, posts, calls>>

\* reader.onloadend
ReaderLoadEnd(i) ==
    /\ i \in DOMAIN readers
    /\ imagePreview' = readers[i]
    /\ readers' = RemoveAt(readers, i)
    /\ UNCHANGED <<allProducts, matchingProducts, detectedColors, isAnalyzing,
                   analysisMessage, isFetching, error, showAddProductForm, newProduct,
                   isSubmitting, fetches, posts, calls>>

\* mutant: the button is never disabled
FindMatchesAlwaysEnabled == imagePreview # ""

\* the Find Matches button is rendered when imagePreview is set and is
\* disabled while isAnalyzing
FindMatchesEnabled == imagePreview # "" /\ ~isAnalyzing

\* mutant: the matches of the earlier attempt are not cleared
handleImageAnalysisKeepsMatches ==
    /\ FindMatchesEnabled
    /\ Len(calls) < MaxCalls
    /\ detectedColors' = NoDetectedColors
    /\ matchingProducts' = matchingProducts
    /\ IF MimeMatches(imagePreview)
       THEN /\ isAnalyzing' = TRUE
            /\ error' = ""
            /\ analysisMessage' = AnalyzingText
            /\ calls' = Append(calls, [allProducts |-> allProducts])
       ELSE /\ isAnalyzing' = FALSE
            /\ error' = ErrService
            /\ analysisMessage' = ""
            /\ calls' = calls
    /\ UNCHANGED <<allProducts, imagePreview, isFetching, showAddProductForm,
                   newProduct, isSubmitting, fetches, posts, readers>>

\* handleImageAnalysis up to `await ai.models.generateContent(...)`; when
\* the data URL does not match, match(...)[1] throws and the catch and
\* finally blocks run at once. The request keeps the catalog of the render
\* whose handler was called.
handleImageAnalysis ==
    /\ FindMatchesEnabled
    /\ Len(calls) < MaxCalls
    /\ detectedColors' = NoDetectedColors
    /\ matchingProducts' = <<>>
    /\ IF MimeMatches(imagePreview)
       THEN /\ isAnalyzing' = TRUE
            /\ error' = ""
            /\ analysisMessage' = AnalyzingText
            /\ calls' = Append(calls, [allProducts |-> allProducts])
       ELSE /\ isAnalyzing' = FALSE
            /\ error' = ErrService
            /\ analysisMessage' = ""
            /\ calls' = calls
    /\ UNCHANGED <<allProducts, imagePreview, isFetching, showAddProductForm,
                   newProduct, isSubmitting, fetches, posts, readers>>

\* mutant: no finally block; a rejected call leaves the busy flag set
AnalysisResumeNoFinally(i, reply) ==
    /\ i \in DOMAIN calls
    /\ LET out == Outcome(reply, calls[i].allProducts)
       IN  /\ error' = IF out.setsError THEN out.error ELSE error
           /\ detectedColors' = IF out.setsDetected THEN out.detected ELSE detectedColors
           /\ matchingProducts' = IF out.setsMatches THEN out.matches ELSE matchingProducts
    /\ isAnalyzing' = IF reply.ok THEN FALSE ELSE isAnalyzing
    /\ analysisMessage' = IF reply.ok THEN "" ELSE analysisMessage
    /\ calls' = RemoveAt(calls, i)
    /\ UNCHANGED <<allProducts, imagePreview, isFetching, showAddProductForm,
                   newProduct, isSubmitting, fetches, posts, readers>>

\* mutant: the catch block calls handleImageAnalysis again when the call
\* was rejected
AnalysisResumeRetries(i, reply) ==
    /\ i \in DOMAIN calls
    /\ IF reply.ok
       THEN LET out == Outcome(reply, calls[i].allProducts)
            IN  /\ error' = IF out.setsError THEN out.error ELSE error
                /\ detectedColors' =
                        IF out.setsDetected THEN out.detected ELSE detectedColors
                /\ matchingProducts' =
                        IF out.setsMatches THEN out.matches ELSE matchingProducts
                /\ calls' = RemoveAt(calls, i)
       ELSE /\ error' = ""
            /\ detectedColors' = NoDetectedColors
            /\ matchingProducts' = <<>>
            /\ calls' = Append(RemoveAt(calls, i), [allProducts |-> calls[i].allProducts])
    /\ isAnalyzing' = FALSE
    /\ analysisMessage' = ""
    /\ UNCHANGED <<allProducts, imagePreview, isFetching, showAddProductForm,
                   newProduct, isSubmitting, fetches, posts, readers>>

\* mutant: the tags of the catalog are lower-cased in place
AnalysisResumeLowersTags(i, reply) ==
    /\ i \in DOMAIN calls
    /\ LET out == Outcome(reply, calls[i].allProducts)
       IN  /\ error' = IF out.setsError THEN out.error ELSE error
           /\ detectedColors' = IF out.setsDetected THEN out.detected ELSE detectedColors
           /\ matchingProducts' = IF out.setsMatches THEN out.matches ELSE matchingProducts
           /\ allProducts' =
                IF out.setsMatches
                THEN [k \in DOMAIN allProducts |->
                        [allProducts[k] EXCEPT !.colorTags.items = MapLower(@)]]
                ELSE allProducts
    /\ isAnalyzing' = FALSE
    /\ analysisMessage' = ""
    /\ calls' = RemoveAt(calls, i)
    /\ UNCHANGED <<imagePreview, isFetching, showAddProductForm,
                   newProduct, isSubmitting, fetches, posts, readers>>

\* a continuation that reads the catalog held when the service answers
AnalysisResumeCurrentCatalog(i, reply) ==
    /\ i \in DOMAIN calls
    /\ LET out == Outcome(reply, allProducts)
       IN  /\ error' = IF out.setsError THEN out.error ELSE error
           /\ detectedColors' = IF out.setsDetected THEN out.detected ELSE detectedColors
           /\ matchingProducts' = IF out.setsMatches THEN out.matches ELSE matchingProducts
    /\ isAnalyzing' = FALSE
    /\ analysisMessage' = ""
    /\ calls' = RemoveAt(calls, i)
    /\ UNCHANGED <<allProducts, imagePreview, isFetching, showAddProductForm,
                   newProduct, isSubmitting, fetches, posts, readers>>

\* handleImageAnalysis after the await, to the end of its finally block:
\* the classification service answers request i with reply
AnalysisResume(i, reply) ==
    /\ i \in DOMAIN calls
    /\ LET out == Outcome(reply, calls[i].allProducts)
       IN  /\ error' = IF out.setsError THEN out.error ELSE error
           /\ detectedColors' = IF out.setsDetected THEN out.detected ELSE detectedColors
           /\ matchingProducts' = IF out.setsMatches THEN out.matches ELSE matchingProducts
    /\ isAnalyzing' = FALSE
    /\ analysisMessage' = ""
    /\ calls' = RemoveAt(calls, i)
    /\ UNCHANGED <<allProducts, imagePreview, isFetching, showAddProductForm,
                   newProduct, isSubmitting, fetches, posts, readers>>

Next ==
    \/ \E i \in DOMAIN fetches, data \in FetchResults : fetchAllProducts(i, TRUE, data)
    \/ \E i \in DOMAIN fetches : fetchAllProducts(i, FALSE, <<>>)
    \/ handleReset
    \/ toggleAddProductForm
    \/ \E input \in FormInputs : handleInputChange(input[1], input[2])
    \/ handleProductSubmit
    \/ \E okResponse \in BOOLEAN : ProductSubmitResponse(okResponse)
    \/ \E result \in DataUrls : handleImageChange(TRUE, result)
    \/ handleImageChange(FALSE, "")
    \/ \E i \in DOMAIN readers : ReaderLoadEnd(i)
    \/ handleImageAnalysis
    \/ \E i \in DOMAIN calls, reply \in ServiceReplies : AnalysisResume(i, reply)

Spec == Init /\ [][Next]_vars

---------------------------------------------------------------------------
(* The matching step on its own: the application with one classification   *)
(* request in flight, for every catalog and every shoe payload within the  *)
(* bounds, and the step that handles the reply.                            *)

DetectedNames == {"Red", "blue"}
TagNames == {"red", "BLUE", "teal"}

\* an optional list of at most n names
OptionalLists(names, n) == {<<>>} \cup {<<l>> : l \in SeqsUpTo(names, n)}

MatchReplies ==
    {Reply(TRUE, "object", "true", m, s) :
        m \in OptionalLists(DetectedNames, MaxColors),
        s \in OptionalLists(DetectedNames, MaxColors)}

\* every colorTags value: no array, or an array of at most MaxTags names
ColorTagsValues ==
    {Undefined, JsNull, JsString} \cup {JsArray(t) : t \in SeqsUpTo(TagNames, MaxTags)}

SampleColorTags ==
    {Undefined, JsString, JsArray(<<>>), JsArray(<<"BLUE">>),
     JsArray(<<"red", "BLUE", "red">>)}

\* every catalog of one product, and the catalogs of at most MaxCatalog
\* products with sample colorTags; a product's id is its place
MatchCatalogs ==
    {<<Product("1", t)>> : t \in ColorTagsValues}
    \cup {[i \in DOMAIN c |-> Product(ToString(i), c[i])] :
            c \in SeqsUpTo(SampleColorTags, MaxCatalog)}

MatchInit ==
    /\ allProducts \in MatchCatalogs
    /\ matchingProducts = <<>>
    /\ imagePreview = "data:image/png;base64,AAAA"
    /\ detectedColors = NoDetectedColors
    /\ isAnalyzing = TRUE
    /\ analysisMessage = AnalyzingText
    /\ isFetching = FALSE
    /\ error = ""
    /\ showAddProductForm = FALSE
    /\ newProduct = EmptyProduct
    /\ isSubmitting = FALSE
    /\ fetches = <<>>
    /\ posts = 0
    /\ readers = <<>>
    /\ calls = << [allProducts |-> allProducts] >>

MatchNext == \E i \in DOMAIN calls, reply \in MatchReplies : AnalysisResume(i, reply)

MatchSpec == MatchInit /\ [][MatchNext]_vars

---------------------------------------------------------------------------
(* Vocabulary of the properties.                                           *)

\* the detected colour list of the held result: mainColors ++ sideColors
Detected == detectedColors.mainColors \o detectedColors.sideColors

\* the lower-cased detected set
LowerSet(D) == {toLowerCase(D[n]) : n \in DOMAIN D}

\* the analysis attempt of MatchSpec has ended with a result
Matched == calls = <<>> /\ error = ""

InResult(product) == \E j \in DOMAIN matchingProducts : matchingProducts[j] = product

HasTagArray(product) == product.colorTags.type = "array"

\* the occurrences of the product's tags whose lower-cased value is detected
TagOccurrences(product, D) ==
    IF HasTagArray(product)
    THEN Cardinality({k \in DOMAIN product.colorTags.items :
                        toLowerCase(product.colorTags.items[k]) \in LowerSet(D)})
    ELSE 0

\* every detected colour is one of the product's tags, up to letter case
ContainsAll(product, D) ==
    /\ HasTagArray(product)
    /\ LowerSet(D) \subseteq LowerSet(product.colorTags.items)

---------------------------------------------------------------------------
(* C1. Broad match rule: when the detected list has 3 or more entries, a   *)
(* catalog product is in the result if and only if at least 3 occurrences  *)
(* of its colorTags (duplicates counted) are, lower-cased, members of the  *)
(* lower-cased detected set.                                               *)
C1_BroadMatchRule ==
    (Matched /\ Len(Detected) >= 3) =>
        \A i \in DOMAIN allProducts :
            InResult(allProducts[i]) <=> TagOccurrences(allProducts[i], Detected) >= 3

\* a product is matched on repeated tags: fewer than 3 distinct tags of it
\* are detected, and 3 or more of its tag occurrences are
C1_Witness ==
    /\ Matched /\ Len(Detected) >= 3
    /\ \E i \in DOMAIN allProducts :
        /\ InResult(allProducts[i])
        /\ Cardinality(LowerSet(allProducts[i].colorTags.items) \cap LowerSet(Detected)) < 3

RECURSIVE WithTagArrays(_)
WithTagArrays(catalog) ==
    IF catalog = <<>> THEN <<>>
    ELSE (IF HasTagArray(Head(catalog)) THEN <<Head(catalog)>> ELSE <<>>)
         \o WithTagArrays(Tail(catalog))

C9_MatchingIsTotal ==
    calls = <<>> =>
        /\ \A j \in DOMAIN matchingProducts : HasTagArray(matchingProducts[j])
        /\ error = (IF Detected = <<>> THEN ErrNoColors ELSE "")
        /\ error = "" =>
            matchingProducts = Matches(WithTagArrays(allProducts),
                                       detectedColors.mainColors,
                                       detectedColors.sideColors)

\* a result with a matched product, from a catalog that also holds a
\* product without a colorTags array
C9_Witness ==
    /\ Matched
    /\ matchingProducts # <<>>
    /\ \E i \in DOMAIN allProducts : ~HasTagArray(allProducts[i])

(* C10. The rule is chosen by the length of mainColors ++ sideColors,      *)
(* duplicates included: a list of 3 or more entries with fewer than 3      *)
(* distinct colours is matched by the broad rule, a list of fewer than 3   *)
(* entries by the exact subset rule.                                       *)
C10_RuleByRawLength ==
    Matched =>
        \A i \in DOMAIN allProducts :
            /\ (Len(Detected) >= 3 /\ Cardinality(LowerSet(Detected)) < 3) =>
                (InResult(allProducts[i])
                    <=> TagOccurrences(allProducts[i], Detected) >= 3)
            /\ Len(Detected) < 3 =>
                (InResult(allProducts[i]) <=> ContainsAll(allProducts[i], Detected))

\* 3 entries, fewer than 3 distinct colours, and a product that has every
\* detected colour is left out: the exact subset rule would have kept it
C10_Witness ==
    /\ Matched
    /\ Len(Detected) >= 3 /\ Cardinality(LowerSet(Detected)) < 3
    /\ \E i \in DOMAIN allProducts :
        /\ ContainsAll(allProducts[i], Detected)
        /\ ~InResult(allProducts[i])

---------------------------------------------------------------------------
(* Properties of the application (Spec).                                   *)

\* an analysis result is held
HoldsResult == Detected # <<>> \/ matchingProducts # <<>>

\* the step ends an analysis attempt whose request was in flight
AttemptEnds == Len(calls') < Len(calls)

(* C3. Errors and results are mutually exclusive: a non-empty error never  *)
(* coexists with a held result (non-empty detectedColors or non-empty      *)
(* matchingProducts), and an attempt that ends leaves exactly one of the   *)
(* two.                                                                    *)
C3_ErrorsExcludeResults ==
    [][ /\ error' # "" => ~HoldsResult'
        /\ AttemptEnds => (error' # "" <=> ~HoldsResult') ]_vars

(* C4. A stale response is discarded: when the preview is empty while a    *)
(* request is in flight (a reset or an image change has happened since it  *)
(* was sent), the step that handles its reply changes none of              *)
(* detectedColors, matchingProducts and error.                             *)
C4_StaleResponseDiscarded ==
    [][ (calls # <<>> /\ imagePreview = "" /\ AttemptEnds)
            => UNCHANGED <<detectedColors, matchingProducts, error>> ]_vars

(* C5. At most one classification request is in flight, and isAnalyzing is *)
(* true exactly while one is: a new analysis cannot start while            *)
(* isAnalyzing is true.                                                    *)
C5_OneRequestInFlight ==
    /\ Len(calls) <= 1
    /\ isAnalyzing <=> calls # <<>>

\* a request is in flight while an image is shown, so the Find Matches
\* button is rendered, after something else has set an error meanwhile
C5_Witness ==
    /\ Len(calls) = 1 /\ isAnalyzing
    /\ imagePreview # ""
    /\ error # ""

(* C6. A parsed payload whose isShoe is no boolean (absent, null, a        *)
(* string, a number, or the payload being null) makes the attempt end with *)
(* the inconclusive-analysis error.                                        *)
C6_NonBooleanIsInconclusive ==
    [][ \A i \in DOMAIN calls, reply \in ServiceReplies :
            ( /\ reply.ok /\ reply.json # "invalid"
              /\ (reply.json = "null" \/ TypeOf(reply.isShoe) # "boolean")
              /\ AnalysisResume(i, reply) )
            => error' = ErrInconclusive ]_vars

(* C7. A payload with isShoe = false makes the attempt end with the        *)
(* not-a-shoe error, with matchingProducts and detectedColors empty,       *)
(* whatever colours the payload carries and whatever the catalog holds.    *)
C7_NotAShoe ==
    [][ \A i \in DOMAIN calls, reply \in ServiceReplies :
            ( /\ reply.ok /\ reply.json = "object" /\ reply.isShoe = "false"
              /\ AnalysisResume(i, reply) )
            => /\ error' = ErrNotAShoe
               /\ matchingProducts' = <<>>
               /\ detectedColors' = NoDetectedColors ]_vars

\* the not-a-shoe error is shown, with a catalog that holds products
C7_Witness ==
    /\ error = ErrNotAShoe
    /\ calls = <<>> /\ ~isAnalyzing
    /\ allProducts # <<>>

(* C8. A payload with isShoe = true whose mainColors and sideColors are    *)
(* both empty or absent makes the attempt end with the no-colours error    *)
(* and no result; with one list absent and the other not empty, the        *)
(* attempt sets no error and detectedColors holds the given list and an    *)
(* empty list for the absent one.                                          *)
C8_NoColorsDetected ==
    [][ \A i \in DOMAIN calls, reply \in ServiceReplies :
            ( /\ reply.ok /\ reply.json = "object" /\ reply.isShoe = "true"
              /\ AnalysisResume(i, reply) )
            => /\ (reply.mainColors \in {<<>>, << <<>> >>}
                    /\ reply.sideColors \in {<<>>, << <<>> >>})
                  => /\ error' = ErrNoColors
                     /\ ~HoldsResult'
               /\ (reply.mainColors = <<>> /\ reply.sideColors \notin {<<>>, << <<>> >>})
                  => /\ error' = error
                     /\ detectedColors' = [mainColors |-> <<>>,
                                           sideColors |-> reply.sideColors[1]]
               /\ (reply.sideColors = <<>> /\ reply.mainColors \notin {<<>>, << <<>> >>})
                  => /\ error' = error
                     /\ detectedColors' = [mainColors |-> reply.mainColors[1],
                                           sideColors |-> <<>>] ]_vars

\* a result with colours in one list only
C8_Witness ==
    /\ calls = <<>> /\ error = ""
    /\ detectedColors.mainColors = <<>>
    /\ detectedColors.sideColors # <<>>

---------------------------------------------------------------------------
(* Further properties of the matching step (MatchSpec).                    *)

\* m is c with some of its elements left out
RECURSIVE IsSubsequence(_, _)
IsSubsequence(m, c) ==
    IF m = <<>> THEN TRUE
    ELSE IF c = <<>> THEN FALSE
    ELSE IF Head(m) = Head(c) THEN IsSubsequence(Tail(m), Tail(c))
    ELSE IsSubsequence(m, Tail(c))

(* C11. The result is a filter of the catalog: a subsequence of it, so     *)
(* every returned product is a catalog entry, none is returned more often  *)
(* than it occurs, and the returned products keep their catalog order.     *)
C11_ResultIsSubsequence ==
    calls = <<>> => IsSubsequence(matchingProducts, allProducts)

\* both products of a catalog of two are matched
C11_Witness ==
    /\ Matched
    /\ Len(allProducts) >= 2
    /\ Len(matchingProducts) >= 2
    /\ matchingProducts[1] # matchingProducts[2]

(* C12, as claimed. With an empty detected colour list the result holds    *)
(* every product whose colorTags is an array (an empty array too) and no   *)
(* other product.                                                          *)
C12_EmptyListMatchesArrays ==
    (calls = <<>> /\ Detected = <<>>) => matchingProducts = WithTagArrays(allProducts)

(* C12, amended. With an empty detected colour list no match is computed:  *)
(* the attempt ends with the no-colours error and matchingProducts is      *)
(* empty, for every catalog, products with a colorTags array included.     *)
C12_EmptyListMatchesNothing ==
    (calls = <<>> /\ Detected = <<>>) =>
        /\ error = ErrNoColors
        /\ matchingProducts = <<>>

\* the attempt has ended with no colours and the catalog holds a product
\* with a colorTags array
C12_Witness ==
    /\ calls = <<>> /\ Detected = <<>>
    /\ \E i \in DOMAIN allProducts : HasTagArray(allProducts[i])

\* another spelling of a colour name, in letter case only
Recase(s) ==
    CASE s = "red" -> "Red"
      [] s = "Red" -> "RED"
      [] s = "RED" -> "red"
      [] s = "blue" -> "Blue"
      [] s = "Blue" -> "BLUE"
      [] s = "BLUE" -> "blue"
      [] s = "teal" -> "Teal"
      [] s = "Teal" -> "teal"
      [] OTHER -> s

\* the list with the names at the places P spelled otherwise
RecaseAt(list, P) == [k \in DOMAIN list |-> IF k \in P THEN Recase(list[k]) ELSE list[k]]

\* the catalog with tag k of product i spelled otherwise
RecaseTag(catalog, i, k) ==
    [catalog EXCEPT ![i].colorTags.items = RecaseAt(@, {k})]

\* the catalog with every tag spelled otherwise
RecaseAllTags(catalog) ==
    [i \in DOMAIN catalog |->
        [catalog[i] EXCEPT !.colorTags.items = RecaseAt(@, DOMAIN @)]]

Ids(products) == [j \in DOMAIN products |-> products[j].id]

(* C13. Matching is case-insensitive: spelling any detected colour or any  *)
(* product tag in another letter case leaves the matched products (by id)  *)
(* unchanged.                                                              *)
C13_CaseInsensitive ==
    Matched =>
        LET main == detectedColors.mainColors
            side == detectedColors.sideColors
            ids == Ids(matchingProducts)
        IN  /\ \A P \in SUBSET DOMAIN main, Q \in SUBSET DOMAIN side :
                    Ids(Matches(allProducts, RecaseAt(main, P), RecaseAt(side, Q))) = ids
            /\ \A i \in DOMAIN allProducts :
                    \A k \in DOMAIN allProducts[i].colorTags.items :
                        Ids(Matches(RecaseTag(allProducts, i, k), main, side)) = ids
            /\ Ids(Matches(RecaseAllTags(allProducts), RecaseAt(main, DOMAIN main),
                           RecaseAt(side, DOMAIN side))) = ids

\* a product is matched on a tag spelled in another letter case than the
\* detected colour
C13_Witness ==
    /\ Matched
    /\ \E j \in DOMAIN matchingProducts :
        /\ Elements(matchingProducts[j].colorTags.items) \cap Elements(Detected) = {}
        /\ LowerSet(matchingProducts[j].colorTags.items) \cap LowerSet(Detected) # {}

---------------------------------------------------------------------------
(* Further properties of the application (Spec).                           *)

\* the five messages an analysis attempt can fail with
AnalysisErrors == {ErrService, ErrMalformed, ErrInconclusive, ErrNotAShoe, ErrNoColors}

(* C14. When the classification call fails (the call is rejected, or the   *)
(* request cannot be built), the attempt ends with the service error, with *)
(* detectedColors and matchingProducts empty and isAnalyzing false.        *)
C14_ServiceUnavailable ==
    [][ /\ \A i \in DOMAIN calls :
            AnalysisResume(i, Rejected)
                => error' = ErrService /\ ~HoldsResult' /\ ~isAnalyzing'
        /\ (handleImageAnalysis /\ ~MimeMatches(imagePreview))
                => error' = ErrService /\ ~HoldsResult' /\ ~isAnalyzing' ]_vars

\* the service error is shown for an image whose request could be built
C14_Witness ==
    /\ error = ErrService
    /\ MimeMatches(imagePreview)
    /\ calls = <<>> /\ ~isAnalyzing

(* C15. No automatic retry: a step that changes the requests in flight or *)
(* the busy flag either is the Find Matches handler, called with its       *)
(* button enabled, which puts at most one request in flight, or ends an    *)
(* attempt: it takes that request out of flight, sends none and clears the *)
(* busy flag.                                                              *)
C15_NoRetry ==
    [][ (calls' # calls \/ isAnalyzing' # isAnalyzing)
            => \/ /\ FindMatchesEnabled /\ handleImageAnalysis
                  /\ calls' \in {calls, Append(calls, [allProducts |-> allProducts])}
               \/ /\ \E i \in DOMAIN calls : calls' = RemoveAt(calls, i)
                  /\ ~isAnalyzing' ]_vars

\* an attempt has failed and no request is in flight
C15_Witness ==
    /\ error \in AnalysisErrors
    /\ calls = <<>> /\ ~isAnalyzing
    /\ imagePreview # ""

(* C17. The catalog is only replaced as a whole by the outcome of a list   *)
(* request: a successful create leaves the catalog as it is and puts a new *)
(* list request in flight; a failed create puts none in flight, leaves the *)
(* catalog as it is and sets the save error; and every change of the       *)
(* catalog is the end of a list request, to the catalog it answered or to  *)
(* the empty catalog when it failed.                                       *)
C17_CatalogReplacedByFetch ==
    [][ /\ ProductSubmitResponse(TRUE)
            => /\ allProducts' = allProducts
               /\ fetches' = Append(fetches, [awaitedBy |-> "submit"])
        /\ ProductSubmitResponse(FALSE)
            => /\ allProducts' = allProducts
               /\ fetches' = fetches
               /\ error' = ErrSave
        /\ allProducts' # allProducts
            => \E i \in DOMAIN fetches :
                \/ \E data \in FetchResults :
                        fetchAllProducts(i, TRUE, data) /\ allProducts' = data
                \/ fetchAllProducts(i, FALSE, <<>>) /\ allProducts' = <<>> ]_vars

\* the list request of a successful create is in flight
C17_Witness ==
    /\ isSubmitting /\ posts = 0
    /\ \E i \in DOMAIN fetches : fetches[i].awaitedBy = "submit"

(* C18. The catalog is read-only for the analysis: starting an attempt,    *)
(* its end with any reply, reset and image change (and the load of the     *)
(* preview) leave allProducts as it is, tags and order included.           *)
C18_CatalogReadOnly ==
    [][ ( \/ handleImageAnalysis
          \/ AttemptEnds
          \/ handleReset
          \/ \E result \in DataUrls : handleImageChange(TRUE, result)
          \/ handleImageChange(FALSE, "")
          \/ \E i \in DOMAIN readers : ReaderLoadEnd(i) )
        => allProducts' = allProducts ]_vars

\* a result is held whose matched product has a tag that is not lower-case
C18_Witness ==
    /\ calls = <<>>
    /\ matchingProducts # <<>>
    /\ \E i \in DOMAIN allProducts :
        /\ HasTagArray(allProducts[i])
        /\ MapLower(allProducts[i].colorTags.items) # allProducts[i].colorTags.items

(* C19. Each attempt replaces the state of the one before: Find Matches    *)
(* clears error, detectedColors and matchingProducts before the request is *)
(* sent; while a request is in flight no result and no analysis error is   *)
(* held; and a successful attempt sets matchingProducts to the match of    *)
(* the colours it detected.                                                *)
C19_AttemptReplacesState ==
    [][ /\ handleImageAnalysis
            => /\ ~HoldsResult'
               /\ calls' # calls => error' = ""
        /\ calls' # <<>> => (~HoldsResult' /\ error' \notin AnalysisErrors)
        /\ (AttemptEnds /\ detectedColors' # NoDetectedColors)
            => \E i \in DOMAIN calls :
                matchingProducts' = Matches(calls[i].allProducts,
                                            detectedColors'.mainColors,
                                            detectedColors'.sideColors) ]_vars

\* a request is in flight, with a catalog that holds products, and nothing
\* of an earlier attempt is held
C19_Witness ==
    /\ calls # <<>>
    /\ calls[1].allProducts # <<>>
    /\ ~HoldsResult /\ error = ""

(* C20. Reset empties imagePreview, detectedColors, matchingProducts and   *)
(* error and leaves isAnalyzing, the catalog and the state of the form as  *)
(* they are; an image change does the same before the preview is loaded.   *)
ResetEffect ==
    /\ imagePreview' = ""
    /\ detectedColors' = NoDetectedColors
    /\ matchingProducts' = <<>>
    /\ error' = ""
    /\ UNCHANGED <<isAnalyzing, allProducts, showAddProductForm, newProduct,
                   isSubmitting>>

C20_ResetEffect ==
    [][ /\ handleReset => ResetEffect
        /\ (\E result \in DataUrls : handleImageChange(TRUE, result)) => ResetEffect
        /\ handleImageChange(FALSE, "") => ResetEffect ]_vars

\* the state is cleared while a request is in flight and the form is
\* partly filled
C20_Witness ==
    /\ imagePreview = ""
    /\ isAnalyzing /\ calls # <<>>
    /\ newProduct # EmptyProduct
    /\ allProducts # <<>>

---------------------------------------------------------------------------
(* The application with a classification service that answers: a request   *)
(* in flight is eventually answered or rejected.                           *)

ServiceAnswers ==
    \E i \in DOMAIN calls, reply \in ServiceReplies : AnalysisResume(i, reply)

LiveSpec == Init /\ [][Next]_vars /\ WF_vars(ServiceAnswers)

(* C16. Every attempt runs to its end: when the service answers or rejects *)
(* every request, a state with isAnalyzing true is followed by one with    *)
(* isAnalyzing false, whatever the reply and whatever resets and image     *)
(* changes happen meanwhile.                                               *)
C16_AttemptEnds == isAnalyzing ~> ~isAnalyzing

\* an attempt has ended with an error after the state was reset
C16_Witness ==
    /\ ~isAnalyzing /\ calls = <<>>
    /\ error \in AnalysisErrors
    /\ imagePreview = ""

\* ---------------------------------------------------------------------------
\* C21: a successful attempt is matched against the catalog held when Find
\* Matches was clicked. The click records the catalog of that moment with the
\* request; a step that changes the catalog (a list request ending) changes
\* neither the requests in flight nor matchingProducts; and the step that
\* ends request i with detected colours sets matchingProducts to the match
\* against the catalog recorded with request i, whatever allProducts is then.
C21_MatchUsesCatalogAtClick ==
    [][ /\ (handleImageAnalysis /\ calls' # calls)
            => calls' = Append(calls, [allProducts |-> allProducts])
        /\ allProducts' # allProducts
            => (calls' = calls /\ matchingProducts' = matchingProducts)
        /\ \A i \in DOMAIN calls :
             (calls' = RemoveAt(calls, i) /\ detectedColors' # NoDetectedColors)
                => matchingProducts' =
                     Matches(calls[i].allProducts, detectedColors'.mainColors,
                             detectedColors'.sideColors) ]_vars

\* a request is in flight whose recorded catalog has since been replaced by
\* one that gives another match for the colours Red and blue
C21_Witness ==
    /\ calls # <<>>
    /\ allProducts # calls[1].allProducts
    /\ ~FilterThrows(allProducts) /\ ~FilterThrows(calls[1].allProducts)
    /\ Matches(calls[1].allProducts, <<"Red", "blue">>, <<>>) # <<>>
    /\ Matches(allProducts, <<"Red", "blue">>, <<>>)
         # Matches(calls[1].allProducts, <<"Red", "blue">>, <<>>)

\* ---------------------------------------------------------------------------
\* C22: in every reachable state, a non-empty matchingProducts comes with a
\* non-empty detectedColors (mainColors or sideColors).
C22_MatchesImplyDetected == matchingProducts # <<>> => Detected # <<>>

\* matched products are held, also after the image they came from was
\* removed while the request was in flight
C22_Witness == matchingProducts # <<>> /\ imagePreview = "" /\ calls = <<>>

====
